---- MODULE Spec2Model ----
(***************************************************************************)
(* Atomica simulation core: Coulomb solver, particle integrator, atoms,    *)
(* molecules, orbital model, nuclear reactor, bond calculator and physics  *)
(* engine; and the frame loop of the application that drives them.         *)
(*                                                                         *)
(* Number representation.  The program computes in IEEE-754 single         *)
(* precision.  A float is modelled as an integer in the unit system below, *)
(* every division rounding toward zero (a sign-symmetric rounding, like    *)
(* the float division it stands for), plus NaN (0/0 in Particle::update)   *)
(* and the infinities (1240/0 in energyToWavelengthNm, a division by a     *)
(* wrapped zero in calculateOrbitalEnergy).                                *)
(*   length   : 1 unit = 0.5e-9 m    (so the 1e-9f epsilon is 2 units)     *)
(*   mass     : 1 unit = 1e-34 kg                                          *)
(*   charge   : 1 unit = 1.602e-19 C                                       *)
(*   unit vectors are fixed point, ONE standing for 1.0                    *)
(***************************************************************************)
EXTENDS Integers, Sequences, FiniteSets, TLC

\* ------------------------------------------------------------------ bounds
\* longest particle list handed to the solver by the kernel harness
MaxParticles == 3
\* longest sequence of API calls explored
MaxCalls == 6
\* highest orbital level asked for
MaxLevel == 2

\* calls made in a behaviour of OrbitalSpec
MaxOrbitalCalls == 4

\* calls made in a behaviour of EnergySpec
MaxPureCalls == 2

\* calls made in a behaviour of ReactorSpec
MaxReactorCalls == 4

\* calls made in a behaviour of BondSpec
MaxBondCalls == 3

\* calls made in a behaviour of AtomSpec
MaxAtomCalls == 4

\* calls made in a behaviour of PlacementSpec
MaxPlacementCalls == 6

\* frames the main loop runs in a behaviour of FrameSpec
MaxFrames == 2

\* key events delivered by one glfwPollEvents
MaxKeyEvents == 1

\* --------------------------------------------------------- program constants
COULOMB_CONSTANT == 3600000
EPSILON == 2
ONE == 60
PROTON_MASS == 16720000
NEUTRON_MASS == 16740000
ELECTRON_MASS == 9109
ELEMENTARY_CHARGE == 1
ELECTRON_CHARGE == -1
NaN == -2147483647
Infinity == 2147483646
INT_MAX == 2147483647

\* ------------------------------------------------------------ float scalars
IsNaN(a) == a = NaN

FAdd(a, b) == IF IsNaN(a) \/ IsNaN(b) THEN NaN ELSE a + b

FSub(a, b) == IF IsNaN(a) \/ IsNaN(b) THEN NaN ELSE a - b

FNeg(a) == IF IsNaN(a) THEN NaN ELSE 0 - a

FMul(a, b) == IF IsNaN(a) \/ IsNaN(b) THEN NaN ELSE a * b

Abs(a) == IF a < 0 THEN 0 - a ELSE a

TruncDiv(a, b) == IF (a < 0) = (b < 0) THEN Abs(a) \div Abs(b) ELSE 0 - (Abs(a) \div Abs(b))

\* 0/0 is NaN.  A non-zero numerator over a zero denominator (an infinity)
\* does not occur: the solver divides only by distances of at least EPSILON,
\* and a particle of mass 0 has charge 0, hence a force of 0 or NaN.
FDiv(a, b) == IF IsNaN(a) \/ IsNaN(b) \/ b = 0 THEN NaN ELSE TruncDiv(a, b)

\* every comparison with NaN is false
FLess(a, b) == ~IsNaN(a) /\ ~IsNaN(b) /\ a < b

RECURSIVE SqrtSearch(_, _, _)
SqrtSearch(n, lo, hi) ==
    IF lo >= hi THEN lo
    ELSE LET mid == (lo + hi + 1) \div 2
         IN IF mid * mid <= n THEN SqrtSearch(n, mid, hi) ELSE SqrtSearch(n, lo, mid - 1)

\* the largest k with k*k <= a
FSqrt(a) == IF IsNaN(a) THEN NaN ELSE SqrtSearch(a, 0, IF a < 46340 THEN a ELSE 46340)

FLessEq(a, b) == ~IsNaN(a) /\ ~IsNaN(b) /\ a <= b

\* --------------------------------------------------------------- 32-bit int
\* a * b of two non-negative ints does not fit an int
MulOverflows(a, b) == a # 0 /\ b > INT_MAX \div a

\* the low 16 bits and the carry of a0 * b0, for a0, b0 < 2^16
LowProduct(a0, b0) ==
    LET t == (a0 % 256) * b0
        u == (a0 \div 256) * b0
        low == t + ((u % 256) * 256)
    IN [lo |-> (low % 65536), hi |-> ((u \div 256) + (low \div 65536))]

\* a * b modulo 2^32, read as a two's complement int (a, b non-negative)
WrapMul(a, b) ==
    LET a0 == a % 65536
        a1 == a \div 65536
        b0 == b % 65536
        b1 == b \div 65536
        p == LowProduct(a0, b0)
        hi == ((p.hi % 65536) + ((a1 * b0) % 65536) + ((a0 * b1) % 65536)) % 65536
    IN IF hi >= 32768 THEN ((hi - 65536) * 65536) + p.lo ELSE (hi * 65536) + p.lo

\* ------------------------------------------------------------------- vec3
Zero3 == <<0, 0, 0>>

VAdd(u, v) == <<FAdd(u[1], v[1]), FAdd(u[2], v[2]), FAdd(u[3], v[3])>>

VSub(u, v) == <<FSub(u[1], v[1]), FSub(u[2], v[2]), FSub(u[3], v[3])>>

VNeg(u) == <<FNeg(u[1]), FNeg(u[2]), FNeg(u[3])>>

VMulS(u, s) == <<FMul(u[1], s), FMul(u[2], s), FMul(u[3], s)>>

VDivS(u, s) == <<FDiv(u[1], s), FDiv(u[2], s), FDiv(u[3], s)>>

VDot(u, v) == FAdd(FAdd(FMul(u[1], v[1]), FMul(u[2], v[2])), FMul(u[3], v[3]))

VLength(u) == FSqrt(VDot(u, u))

\* glm::normalize: a unit vector, in fixed point
VNormalize(u) ==
    LET len == VLength(u)
    IN <<FDiv(FMul(u[1], ONE), len), FDiv(FMul(u[2], ONE), len), FDiv(FMul(u[3], ONE), len)>>

\* scalar times a fixed-point unit vector
VScaleUnit(s, d) ==
    <<FDiv(FMul(s, d[1]), ONE), FDiv(FMul(s, d[2]), ONE), FDiv(FMul(s, d[3]), ONE)>>

VHasNaN(u) == \E c \in 1..3 : IsNaN(u[c])

Range(f) == {f[x] : x \in DOMAIN f}

\* --------------------------------------------------------------- particles
Particle(type, position, velocity, mass, charge) ==
    [type |-> type, position |-> position, velocity |-> velocity,
     mass |-> mass, charge |-> charge,
     atomicNumber |-> 0, massNumber |-> 0, orbitalLevel |-> 0]

Nucleus(atomicNumber, massNumber, position, velocity, mass, charge) ==
    [Particle("NUCLEUS", position, velocity, mass, charge)
        EXCEPT !.atomicNumber = atomicNumber, !.massNumber = massNumber]

Electron(position, velocity, orbitalLevel) ==
    [Particle("ELECTRON", position, velocity, ELECTRON_MASS, ELECTRON_CHARGE)
        EXCEPT !.orbitalLevel = orbitalLevel]

\* mutant: the position step uses the velocity of before the call
ParticleUpdate_staleVelocity(p, force, deltaTime) ==
    LET acceleration == VDivS(force, p.mass)
    IN [p EXCEPT !.velocity = VAdd(p.velocity, VMulS(acceleration, deltaTime)),
                 !.position = VAdd(p.position, VMulS(p.velocity, deltaTime))]

ParticleUpdate(p, force, deltaTime) ==
    LET acceleration == VDivS(force, p.mass)
        velocity == VAdd(p.velocity, VMulS(acceleration, deltaTime))
    IN [p EXCEPT !.velocity = velocity,
                 !.position = VAdd(p.position, VMulS(velocity, deltaTime))]

\* ------------------------------------------------------------ CoulombSolver
\* mutant: the displacement taken from i to j
RVec_reversed(pi, pj) == VSub(pj.position, pi.position)

RVec(pi, pj) == VSub(pi.position, pj.position)

\* mutant: no pair is skipped
TooClose_never(distance) == FALSE

TooClose(distance) == FLess(distance, EPSILON)

PairForce(pi, pj) ==
    LET r_vec == RVec(pi, pj)
        distance == VLength(r_vec)
        forceMagnitude == FDiv(FMul(COULOMB_CONSTANT, FMul(pi.charge, pj.charge)),
                               FMul(distance, distance))
        forceDirection == VNormalize(r_vec)
    IN VScaleUnit(forceMagnitude, forceDirection)

\* mutant: the reaction is added instead of subtracted
Accumulate_sameSign(forces, i, j, force) ==
    [forces EXCEPT ![i] = VAdd(@, force), ![j] = VAdd(@, force)]

\* mutant: the reaction on j is left out
Accumulate_noReaction(forces, i, j, force) ==
    [forces EXCEPT ![i] = VAdd(@, force)]

Accumulate(forces, i, j, force) ==
    [forces EXCEPT ![i] = VAdd(@, force), ![j] = VSub(@, force)]

\* mutant: a skipped pair ends the inner loop (break for continue)
AfterPair_break(ps, i, j) == Len(ps) + 1

\* where the inner loop resumes after the skipped pair (i, j): continue
AfterPair(ps, i, j) == j + 1

RECURSIVE InnerLoop(_, _, _, _)
InnerLoop(ps, forces, i, j) ==
    IF j > Len(ps) THEN forces
    ELSE IF TooClose(VLength(RVec(ps[i], ps[j])))
         THEN InnerLoop(ps, forces, i, AfterPair(ps, i, j))
         ELSE InnerLoop(ps, Accumulate(forces, i, j, PairForce(ps[i], ps[j])), i, j + 1)

RECURSIVE OuterLoop(_, _, _)
OuterLoop(ps, forces, i) ==
    IF i > Len(ps) THEN forces
    ELSE OuterLoop(ps, InnerLoop(ps, forces, i, i + 1), i + 1)

calculateForces(ps) == OuterLoop(ps, [k \in 1..Len(ps) |-> Zero3], 1)

\* =========================================================================
\* State
\* =========================================================================
VARIABLES
    kParticles,   \* kernel harness: the particle list handed to the solver
    kForces,      \* kernel harness: the forces the solver returned
    kPhase,       \* kernel harness: "input", "solved" or "integrated"
    kLast,        \* kernel harness: the last Particle::update call
    particles,    \* every Particle object made so far (index = identity)
    atoms,        \* every Atom object made so far (index = identity)
    molecules,    \* every Molecule object made so far (index = identity)
    m_atoms,      \* PhysicsEngine::m_atoms, a list of atom identities
    m_molecules,  \* PhysicsEngine::m_molecules, a list of molecule identities
    registered,   \* history: the atoms each m_molecules entry held when added
    calls,        \* number of API calls made so far
    lastCall,     \* the call just made: [op, args, ret]
    signal,       \* "none", or the signal that ended the process
    app           \* SandboxSimulation: where the main loop is, and its counters

kvars == <<kParticles, kForces, kPhase, kLast>>

evars == <<particles, atoms, molecules, m_atoms, m_molecules, registered, calls, lastCall,
           signal>>

vars == <<kParticles, kForces, kPhase, kLast,
          particles, atoms, molecules, m_atoms, m_molecules, registered, calls, lastCall,
          signal, app>>

NoCall == [k |-> 0, deltaTime |-> 0, force |-> Zero3, before |-> <<>>, after |-> <<>>]

NoReturn == [op |-> "none", args |-> <<>>, ret |-> 0]

Called(op, args, ret) == [op |-> op, args |-> args, ret |-> ret]

\* the application before main() has run
AppIdle ==
    [pc |-> "main", m_running |-> FALSE, shouldClose |-> FALSE, frame |-> 0,
     deltaTime |-> 0, demoTimer |-> 0, updates |-> 0, keyEvents |-> 0,
     atomCount |-> 0, moleculeCount |-> 0]

KernelIdle ==
    /\ kParticles = <<>>
    /\ kForces = <<>>
    /\ kPhase = "idle"
    /\ kLast = NoCall

EngineEmpty ==
    /\ particles = <<>>
    /\ atoms = <<>>
    /\ molecules = <<>>
    /\ m_atoms = <<>>
    /\ m_molecules = <<>>
    /\ registered = <<>>
    /\ calls = 0
    /\ lastCall = NoReturn
    /\ signal = "none"
    /\ app = AppIdle

\* =========================================================================
\* Kernel harness: CoulombSolver::calculateForces and Particle::update on
\* particle lists drawn from bounded sets
\* =========================================================================
KernelPoints == {<<0, 0, 0>>, <<1, 0, 0>>, <<4, 0, 0>>, <<0, 3, 4>>}

\* <<type, charge, mass, velocity>>
KernelKinds == {<<"ELECTRON", -1, 2, <<0, 0, 0>>>>,
                <<"NEUTRON", 0, 3, <<1, -2, 0>>>>,
                <<"NUCLEUS", 2, 5, <<-3, 0, 4>>>>}

KernelDts == {0, 1, 2}

KernelParticleSet ==
    {Particle(kd[1], pt, kd[4], kd[3], kd[2]) : kd \in KernelKinds, pt \in KernelPoints}

KInit ==
    /\ kParticles \in UNION {[1..n -> KernelParticleSet] : n \in 0..MaxParticles}
    /\ kForces = <<>>
    /\ kPhase = "input"
    /\ kLast = NoCall
    /\ EngineEmpty

KCalculateForces ==
    /\ kPhase = "input"
    /\ kForces' = calculateForces(kParticles)
    /\ kPhase' = "solved"
    /\ UNCHANGED <<kParticles, kLast>>
    /\ UNCHANGED <<evars, app>>

KParticleUpdate(k, deltaTime) ==
    /\ kPhase = "solved"
    /\ kParticles' = [kParticles EXCEPT ![k] = ParticleUpdate(@, kForces[k], deltaTime)]
    /\ kLast' = [k |-> k, deltaTime |-> deltaTime, force |-> kForces[k],
                 before |-> kParticles[k], after |-> kParticles'[k]]
    /\ kPhase' = "integrated"
    /\ UNCHANGED kForces
    /\ UNCHANGED <<evars, app>>

KNext ==
    \/ KCalculateForces
    \/ \E k \in 1..Len(kParticles), deltaTime \in KernelDts : KParticleUpdate(k, deltaTime)

KernelSpec == KInit /\ [][KNext]_vars

\* =========================================================================
\* Atom, Molecule, OrbitalModel, PhysicsEngine
\* =========================================================================
\* <<atomicNumber, massNumber, position>> of the atoms constructed
AtomInputs == {<<1, 1, <<0, 0, 0>>>>, <<2, 4, <<0, 3, 4>>>>, <<0, 0, <<0, 3, 4>>>>}

EngineDts == {1, 2}

JumpLevels == (0 - 1)..MaxLevel

\* ----------------------------------------------------------------- Atom
NucleusMass(atomicNumber, massNumber) ==
    FAdd(FMul(atomicNumber, PROTON_MASS), FMul(massNumber - atomicNumber, NEUTRON_MASS))

NucleusCharge(atomicNumber) == FMul(atomicNumber, ELEMENTARY_CHARGE)

\* mutant: the electrons start with no orbital level
AtomParticles_levelZero(atomicNumber, massNumber, position) ==
    <<Nucleus(atomicNumber, massNumber, position, Zero3,
              NucleusMass(atomicNumber, massNumber), NucleusCharge(atomicNumber))>>
    \o [i \in 1..atomicNumber |-> Electron(position, Zero3, 0)]

\* the particles Atom::Atom makes: the nucleus, then atomicNumber electrons
AtomParticles(atomicNumber, massNumber, position) ==
    <<Nucleus(atomicNumber, massNumber, position, Zero3,
              NucleusMass(atomicNumber, massNumber), NucleusCharge(atomicNumber))>>
    \o [i \in 1..atomicNumber |-> Electron(position, Zero3, 1)]

\* std::make_shared<Atom>(atomicNumber, massNumber, position)
NewAtom(atomicNumber, massNumber, position) ==
    /\ calls < MaxCalls
    /\ particles' = particles \o AtomParticles(atomicNumber, massNumber, position)
    /\ atoms' = Append(atoms,
                       [atomicNumber |-> atomicNumber, massNumber |-> massNumber,
                        nucleus |-> Len(particles) + 1,
                        electrons |-> [i \in 1..atomicNumber |-> Len(particles) + 1 + i]])
    /\ calls' = calls + 1
    /\ lastCall' = Called("Atom", <<atomicNumber, massNumber, position>>, Len(atoms) + 1)
    /\ UNCHANGED <<molecules, m_atoms, m_molecules, registered>>
    /\ UNCHANGED <<kvars, app, signal>>

\* mutant: the first occurrence is overwritten with the last entry, which is
\* then dropped
WithoutElectron_swapLast(electrons, electron) ==
    IF \A i \in 1..Len(electrons) : electrons[i] # electron THEN electrons
    ELSE LET first == CHOOSE i \in 1..Len(electrons) :
                          /\ electrons[i] = electron
                          /\ \A j \in 1..(i - 1) : electrons[j] # electron
         IN SubSeq([electrons EXCEPT ![first] = electrons[Len(electrons)]],
                   1, Len(electrons) - 1)

\* std::remove followed by erase: every occurrence goes, the rest keep order
WithoutElectron(electrons, electron) == SelectSeq(electrons, LAMBDA x : x # electron)

\* Atom::removeElectron
RemoveElectron(a, electron) ==
    /\ calls < MaxCalls
    /\ atoms' = [atoms EXCEPT ![a].electrons = WithoutElectron(@, electron)]
    /\ calls' = calls + 1
    /\ lastCall' = Called("removeElectron", <<a, electron>>,
                          Len(WithoutElectron(atoms[a].electrons, electron))
                              # Len(atoms[a].electrons))
    /\ UNCHANGED <<particles, molecules, m_atoms, m_molecules, registered>>
    /\ UNCHANGED <<kvars, app, signal>>

\* ------------------------------------------------------------- Molecule
\* std::make_shared<Molecule>()
NewMolecule ==
    /\ calls < MaxCalls
    /\ molecules' = Append(molecules, [atoms |-> <<>>])
    /\ calls' = calls + 1
    /\ lastCall' = Called("Molecule", <<>>, Len(molecules) + 1)
    /\ UNCHANGED <<particles, atoms, m_atoms, m_molecules, registered>>
    /\ UNCHANGED <<kvars, app, signal>>

\* Molecule::addAtom
MoleculeAddAtom(m, a) ==
    /\ calls < MaxCalls
    /\ molecules' = [molecules EXCEPT ![m].atoms = Append(@, a)]
    /\ calls' = calls + 1
    /\ lastCall' = Called("Molecule::addAtom", <<m, a>>, 0)
    /\ UNCHANGED <<particles, atoms, m_atoms, m_molecules, registered>>
    /\ UNCHANGED <<kvars, app, signal>>

\* --------------------------------------------------------- OrbitalModel
RYDBERG_CONSTANT_EV == 13605693

\* -R * (zz / nn) in micro-eV for the two int products, with the one
\* rounding of the quotient; a zero nn divides by zero
OrbitalEnergyOf(zz, nn) ==
    IF nn = 0
    THEN IF zz = 0 THEN NaN ELSE IF zz > 0 THEN 0 - Infinity ELSE Infinity
    ELSE FNeg(FDiv(FMul(RYDBERG_CONSTANT_EV, zz), nn))

\* OrbitalModel::calculateOrbitalEnergy where both int products fit an int
calculateOrbitalEnergy(atomicNumber, orbitalLevel) ==
    IF orbitalLevel <= 0 THEN 0
    ELSE OrbitalEnergyOf(atomicNumber * atomicNumber, orbitalLevel * orbitalLevel)

\* mutant: only negative levels are rejected
LevelRejected_negativeOnly(newOrbitalLevel) == newOrbitalLevel < 0

LevelRejected(newOrbitalLevel) == newOrbitalLevel <= 0

\* mutant: the energy difference is taken the other way round
EnergyDifference_reversed(initialEnergy, finalEnergy) == FSub(initialEnergy, finalEnergy)

\* deltaE = finalEnergy - initialEnergy
EnergyDifference(initialEnergy, finalEnergy) == FSub(finalEnergy, initialEnergy)

\* mutant: levels are stored counted from 0
StoredLevel_fromZero(currentOrbitalLevel, newOrbitalLevel) == newOrbitalLevel - 1

\* mutant: the electron keeps the level it had
StoredLevel_kept(currentOrbitalLevel, newOrbitalLevel) == currentOrbitalLevel

\* electron->setOrbitalLevel(newOrbitalLevel)
StoredLevel(currentOrbitalLevel, newOrbitalLevel) == newOrbitalLevel

\* OrbitalModel::simulateElectronJump: the particles after the call and the
\* value returned; electron and atom are identities, 0 the null pointer
JumpOutcome(ps, as, electron, atom, newOrbitalLevel) ==
    IF electron = 0 \/ atom = 0
    THEN [particles |-> ps, ret |-> 0]
    ELSE LET currentOrbitalLevel == ps[electron].orbitalLevel
         IN IF LevelRejected(newOrbitalLevel)
            THEN [particles |-> ps, ret |-> 0]
            ELSE LET initialEnergy ==
                         calculateOrbitalEnergy(as[atom].atomicNumber, currentOrbitalLevel)
                     finalEnergy ==
                         calculateOrbitalEnergy(as[atom].atomicNumber, newOrbitalLevel)
                 IN [particles |-> [ps EXCEPT ![electron].orbitalLevel =
                                        StoredLevel(currentOrbitalLevel, newOrbitalLevel)],
                     ret |-> EnergyDifference(initialEnergy, finalEnergy)]

ElectronIds == {e \in 1..Len(particles) : particles[e].type = "ELECTRON"}

SimulateElectronJump(electron, atom, newOrbitalLevel) ==
    /\ calls < MaxCalls
    /\ particles' = JumpOutcome(particles, atoms, electron, atom, newOrbitalLevel).particles
    /\ calls' = calls + 1
    /\ lastCall' = Called("simulateElectronJump", <<electron, atom, newOrbitalLevel>>,
                          JumpOutcome(particles, atoms, electron, atom, newOrbitalLevel).ret)
    /\ UNCHANGED <<atoms, molecules, m_atoms, m_molecules, registered>>
    /\ UNCHANGED <<kvars, app, signal>>

\* -------------------------------------------------------- PhysicsEngine
\* PhysicsEngine::addAtom
EngineAddAtom(a) ==
    /\ calls < MaxCalls
    /\ m_atoms' = Append(m_atoms, a)
    /\ calls' = calls + 1
    /\ lastCall' = Called("addAtom", <<a>>, 0)
    /\ UNCHANGED <<particles, atoms, molecules, m_molecules, registered>>
    /\ UNCHANGED <<kvars, app, signal>>

\* mutant: atoms the engine already lists are not added again
CascadeAtoms_dedup(list, moleculeAtoms) ==
    list \o SelectSeq(moleculeAtoms, LAMBDA x : \A k \in 1..Len(list) : list[k] # x)

\* mutant: the molecule is registered without its atoms
CascadeAtoms_none(list, moleculeAtoms) == list

\* the loop of addMolecule: addAtom for every atom of the molecule, in order
CascadeAtoms(list, moleculeAtoms) == list \o moleculeAtoms

\* PhysicsEngine::addMolecule
EngineAddMolecule(m) ==
    /\ calls < MaxCalls
    /\ m_molecules' = Append(m_molecules, m)
    /\ m_atoms' = CascadeAtoms(m_atoms, molecules[m].atoms)
    /\ registered' = Append(registered, molecules[m].atoms)
    /\ calls' = calls + 1
    /\ lastCall' = Called("addMolecule", <<m>>, 0)
    /\ UNCHANGED <<particles, atoms, molecules>>
    /\ UNCHANGED <<kvars, app, signal>>

\* the entries one atom adds to allParticles: its nucleus, then its electrons
AtomEntries(atom) == <<atom.nucleus>> \o atom.electrons

\* step 1 of update: the entries of every listed atom, in list order
RECURSIVE AllParticles(_, _, _)
AllParticles(as, list, i) ==
    IF i > Len(list) THEN <<>>
    ELSE AtomEntries(as[list[i]]) \o AllParticles(as, list, i + 1)

Deref(ps, ids) == [k \in 1..Len(ids) |-> ps[ids[k]]]

\* mutant: the force on entry k is solved again from the positions as they
\* are when entry k is integrated
ForceFor_recomputed(ps, allParticles, forces, k) ==
    calculateForces(Deref(ps, allParticles))[k]

\* the force entry k is integrated with: forces[i] of the one solve
ForceFor(ps, allParticles, forces, k) == forces[k]

\* step 3 of update: the entries are integrated in list order, an object
\* listed twice twice
RECURSIVE Integrate(_, _, _, _, _)
Integrate(ps, allParticles, forces, k, deltaTime) ==
    IF k > Len(allParticles) THEN ps
    ELSE Integrate([ps EXCEPT ![allParticles[k]] =
                        ParticleUpdate(@, ForceFor(ps, allParticles, forces, k), deltaTime)],
                   allParticles, forces, k + 1, deltaTime)

\* PhysicsEngine::update
EngineUpdate(deltaTime) ==
    /\ calls < MaxCalls
    /\ LET allParticles == AllParticles(atoms, m_atoms, 1)
           forces == calculateForces(Deref(particles, allParticles))
       IN particles' = Integrate(particles, allParticles, forces, 1, deltaTime)
    /\ calls' = calls + 1
    /\ lastCall' = Called("update", <<deltaTime>>, 0)
    /\ UNCHANGED <<atoms, molecules, m_atoms, m_molecules, registered>>
    /\ UNCHANGED <<kvars, app, signal>>

Init == KernelIdle /\ EngineEmpty

Next ==
    \/ \E in \in AtomInputs : NewAtom(in[1], in[2], in[3])
    \/ \E a \in 1..Len(atoms) : \E e \in Range(atoms[a].electrons) : RemoveElectron(a, e)
    \/ NewMolecule
    \/ \E m \in 1..Len(molecules), a \in 1..Len(atoms) : MoleculeAddAtom(m, a)
    \/ \E a \in 1..Len(atoms) : EngineAddAtom(a)
    \/ \E m \in 1..Len(molecules) : EngineAddMolecule(m)
    \/ \E dt \in EngineDts : EngineUpdate(dt)

Spec == Init /\ [][Next]_vars

\* -------------------------------------------------------------------------
\* Atoms and electron jumps alone
\* -------------------------------------------------------------------------
OrbitalNext ==
    \/ /\ calls < MaxOrbitalCalls
       /\ \E in \in AtomInputs : NewAtom(in[1], in[2], in[3])
    \/ /\ calls < MaxOrbitalCalls
       /\ \E e \in {0} \cup ElectronIds, a \in 0..Len(atoms), n \in JumpLevels :
             SimulateElectronJump(e, a, n)

OrbitalSpec == Init /\ [][OrbitalNext]_vars

\* =========================================================================
\* OrbitalModel's functions on their own (EnergySpec)
\* =========================================================================
EnergyZs == {0, 1, 2, 12}

EnergyLevels == {0 - 1, 0, 1, 2, 3, 1000, 65535, 65536, 65537}

\* photon energies in micro-eV
PhotonEnergies ==
    {0, 1, 0 - 1, 1653333, 0 - 1653333, 3263157, 0 - 3263157, 10204270, 0 - 10204270}

\* wavelengths in nm
Wavelengths == {0, 121, 379, 380, 381, 749, 750, 751, Infinity}

\* what a signed int product that overflows does: two's complement wrap, or
\* the abort of a build that traps on overflow
OverflowOutcomes == {"wrap", "trap"}

\* 1240 nm eV, in nm micro-eV
HC_NM_MICRO_EV == 1240000000
ULTRAVIOLET_BELOW_NM == 380
VISIBLE_UP_TO_NM == 750

\* mutant: the sign of the energy is kept
energyToWavelengthNm_signed(deltaE_eV) ==
    IF deltaE_eV # 0 THEN FDiv(HC_NM_MICRO_EV, deltaE_eV) ELSE Infinity

energyToWavelengthNm(deltaE_eV) ==
    IF deltaE_eV # 0 THEN FDiv(HC_NM_MICRO_EV, Abs(deltaE_eV)) ELSE Infinity

classifyBand(wavelengthNm) ==
    IF FLess(wavelengthNm, ULTRAVIOLET_BELOW_NM) THEN "ULTRAVIOLET"
    ELSE IF FLessEq(wavelengthNm, VISIBLE_UP_TO_NM) THEN "VISIBLE"
    ELSE "INFRARED"

\* OrbitalModel::calculateOrbitalEnergy for any two ints
CalculateOrbitalEnergy(atomicNumber, orbitalLevel, overflow) ==
    /\ signal = "none"
    /\ calls < MaxPureCalls
    /\ LET overflows ==
               /\ orbitalLevel > 0
               /\ \/ MulOverflows(atomicNumber, atomicNumber)
                  \/ MulOverflows(orbitalLevel, orbitalLevel)
       IN /\ overflow = "trap" => overflows
          /\ IF overflows /\ overflow = "trap"
             THEN /\ signal' = "SIGABRT"
                  /\ lastCall' = Called("calculateOrbitalEnergy",
                                        <<atomicNumber, orbitalLevel>>, 0)
             ELSE /\ signal' = signal
                  /\ lastCall' = Called("calculateOrbitalEnergy",
                                        <<atomicNumber, orbitalLevel>>,
                                        IF orbitalLevel <= 0 THEN 0
                                        ELSE OrbitalEnergyOf(
                                                 WrapMul(atomicNumber, atomicNumber),
                                                 WrapMul(orbitalLevel, orbitalLevel)))
    /\ calls' = calls + 1
    /\ UNCHANGED <<particles, atoms, molecules, m_atoms, m_molecules, registered>>
    /\ UNCHANGED <<kvars, app>>

EnergyToWavelengthNm(deltaE_eV) ==
    /\ signal = "none"
    /\ calls < MaxPureCalls
    /\ lastCall' = Called("energyToWavelengthNm", <<deltaE_eV>>,
                          energyToWavelengthNm(deltaE_eV))
    /\ calls' = calls + 1
    /\ UNCHANGED <<particles, atoms, molecules, m_atoms, m_molecules, registered>>
    /\ UNCHANGED <<kvars, app, signal>>

ClassifyBand(wavelengthNm) ==
    /\ signal = "none"
    /\ calls < MaxPureCalls
    /\ lastCall' = Called("classifyBand", <<wavelengthNm>>, classifyBand(wavelengthNm))
    /\ calls' = calls + 1
    /\ UNCHANGED <<particles, atoms, molecules, m_atoms, m_molecules, registered>>
    /\ UNCHANGED <<kvars, app, signal>>

EnergyNext ==
    \/ \E Z \in EnergyZs, n \in EnergyLevels, o \in OverflowOutcomes :
          CalculateOrbitalEnergy(Z, n, o)
    \/ \E dE \in PhotonEnergies : EnergyToWavelengthNm(dE)
    \/ \E w \in Wavelengths : ClassifyBand(w)

EnergySpec == Init /\ [][EnergyNext]_vars


\* =========================================================================
\* NuclearReactor (ReactorSpec)
\* =========================================================================
\* isotope masses in micro-AMU
MASS_U235 == 235043930
MASS_BA141 == 140914411
MASS_KR92 == 91926156
MASS_NEUTRON == 1008665
MASS_D == 2014102
MASS_T == 3016049
MASS_HE4 == 4002603
\* 1e-30 kg per AMU, 1e13 m^2/s^2, 1e15 eV per J
AMU_TO_KG == 1661
C_SQUARED == 8988
J_TO_EV == 6242

\* <<atomicNumber, massNumber, position>> of the atoms the reactor is given
ReactorAtomInputs == {<<1, 2, <<0, 0, 0>>>>, <<1, 3, <<0, 3, 4>>>>}

\* <<atomicNumber, massNumber, mass>> of the nuclei made on their own; the
\* mass is the caller's argument and the reactor never reads it
NucleusInputs == {<<92, 235, 2000000000>>, <<92, 238, 2000000000>>, <<91, 235, 2000000000>>}

\* what a call through a null shared_ptr does: the access faults, or it
\* reads whatever lies at the address and the call goes on with it
NullOutcomes == {"fault", "read"}

NucleusIds == {n \in 1..Len(particles) : particles[n].type = "NUCLEUS"}

\* std::make_shared<Nucleus>(atomicNumber, massNumber, position, velocity, mass, charge)
NewNucleus(atomicNumber, massNumber, mass) ==
    /\ signal = "none"
    /\ calls < MaxReactorCalls
    /\ particles' = Append(particles,
                           Nucleus(atomicNumber, massNumber, Zero3, Zero3, mass,
                                   NucleusCharge(atomicNumber)))
    /\ calls' = calls + 1
    /\ lastCall' = Called("Nucleus", <<atomicNumber, massNumber, mass>>, Len(particles) + 1)
    /\ UNCHANGED <<atoms, molecules, m_atoms, m_molecules, registered>>
    /\ UNCHANGED <<kvars, app, signal>>

\* E = m c^2 in eV for a mass defect in micro-AMU
EnergyOfDefect(massDefectAMU) ==
    LET kg == TruncDiv(massDefectAMU * AMU_TO_KG, 1000)
        energyJoules == TruncDiv(kg * C_SQUARED, 1000)
    IN TruncDiv(energyJoules * J_TO_EV, 100)

\* NuclearReactor::simulateFission on the nucleus with these numbers
simulateFission(atomicNumber, massNumber) ==
    IF atomicNumber # 92 \/ massNumber # 235 THEN 0
    ELSE LET initialMass == MASS_U235
             finalMass == MASS_BA141 + MASS_KR92 + (3 * MASS_NEUTRON)
             massDefectAMU == initialMass - finalMass
         IN IF massDefectAMU <= 0 THEN 0 ELSE EnergyOfDefect(massDefectAMU)

isDeuterium(ps, nucleus1, nucleus2) ==
    \/ ps[nucleus1].atomicNumber = 1 /\ ps[nucleus1].massNumber = 2
    \/ ps[nucleus2].atomicNumber = 1 /\ ps[nucleus2].massNumber = 2

isTritium(ps, nucleus1, nucleus2) ==
    \/ ps[nucleus1].atomicNumber = 1 /\ ps[nucleus1].massNumber = 3
    \/ ps[nucleus2].atomicNumber = 1 /\ ps[nucleus2].massNumber = 3

\* mutant: the first nucleus must be the deuterium, the second the tritium
FusionSupported_ordered(ps, nucleus1, nucleus2) ==
    /\ ps[nucleus1].atomicNumber = 1 /\ ps[nucleus1].massNumber = 2
    /\ ps[nucleus2].atomicNumber = 1 /\ ps[nucleus2].massNumber = 3

FusionSupported(ps, nucleus1, nucleus2) ==
    isDeuterium(ps, nucleus1, nucleus2) /\ isTritium(ps, nucleus1, nucleus2)

\* NuclearReactor::simulateFusion on two nuclei
simulateFusion(ps, nucleus1, nucleus2) ==
    IF ~FusionSupported(ps, nucleus1, nucleus2) THEN 0
    ELSE LET initialMass == MASS_D + MASS_T
             finalMass == MASS_HE4 + MASS_NEUTRON
             massDefectAMU == initialMass - finalMass
         IN IF massDefectAMU <= 0 THEN 0 ELSE EnergyOfDefect(massDefectAMU)

\* mutant: a reaction that releases energy leaves a free neutron behind
ReactionProducts_neutron(ps, energyEV) ==
    IF energyEV > 0
    THEN Append(ps, Particle("NEUTRON", Zero3, Zero3, NEUTRON_MASS, 0))
    ELSE ps

\* the particles after a reaction: the energy is returned and nothing is made
ReactionProducts(ps, energyEV) == ps

SimulateFission(nucleus, null) ==
    /\ signal = "none"
    /\ calls < MaxReactorCalls
    /\ IF nucleus = 0
       THEN /\ signal' = IF null = "fault" THEN "SIGSEGV" ELSE signal
            /\ lastCall' = Called("simulateFission", <<nucleus>>, 0)
            /\ particles' = particles
       ELSE /\ null = "read"
            /\ signal' = signal
            /\ LET energyEV == simulateFission(particles[nucleus].atomicNumber,
                                               particles[nucleus].massNumber)
               IN /\ lastCall' = Called("simulateFission", <<nucleus>>, energyEV)
                  /\ particles' = ReactionProducts(particles, energyEV)
    /\ calls' = calls + 1
    /\ UNCHANGED <<atoms, molecules, m_atoms, m_molecules, registered>>
    /\ UNCHANGED <<kvars, app>>

SimulateFusion(nucleus1, nucleus2, null) ==
    /\ signal = "none"
    /\ calls < MaxReactorCalls
    /\ IF nucleus1 = 0 \/ nucleus2 = 0
       THEN /\ signal' = IF null = "fault" THEN "SIGSEGV" ELSE signal
            /\ lastCall' = Called("simulateFusion", <<nucleus1, nucleus2>>, 0)
            /\ particles' = particles
       ELSE /\ null = "read"
            /\ signal' = signal
            /\ LET energyEV == simulateFusion(particles, nucleus1, nucleus2)
               IN /\ lastCall' = Called("simulateFusion", <<nucleus1, nucleus2>>, energyEV)
                  /\ particles' = ReactionProducts(particles, energyEV)
    /\ calls' = calls + 1
    /\ UNCHANGED <<atoms, molecules, m_atoms, m_molecules, registered>>
    /\ UNCHANGED <<kvars, app>>

ReactorNext ==
    \/ /\ signal = "none" /\ calls < MaxReactorCalls
       /\ \E in \in ReactorAtomInputs : NewAtom(in[1], in[2], in[3])
    \/ \E in \in NucleusInputs : NewNucleus(in[1], in[2], in[3])
    \/ /\ signal = "none" /\ calls < MaxReactorCalls
       /\ \E a \in 1..Len(atoms) : EngineAddAtom(a)
    \/ \E n \in {0} \cup NucleusIds, null \in NullOutcomes : SimulateFission(n, null)
    \/ \E n1, n2 \in {0} \cup NucleusIds, null \in NullOutcomes : SimulateFusion(n1, n2, null)

ReactorSpec == Init /\ [][ReactorNext]_vars


\* =========================================================================
\* BondCalculator (BondSpec)
\* =========================================================================
\* <<atomicNumber, massNumber, position>> of the atoms handed to the calculator
BondAtomInputs ==
    {<<1, 1, <<0, 0, 0>>>>, <<1, 2, <<0, 3, 4>>>>, <<6, 12, <<0, 0, 0>>>>,
     <<7, 14, <<0, 3, 4>>>>, <<8, 16, <<0, 0, 0>>>>}

\* Bond::Type, and a value outside the enumeration
BondTypes == {"SINGLE", "DOUBLE", "TRIPLE", "IONIC", "METALLIC", "HYDROGEN"}

BondTypeInputs == BondTypes \cup {"OTHER"}

\* mutant: two nitrogens get the default
BondTypeOf_noTriple(z1, z2) ==
    IF z1 = 8 /\ z2 = 8 THEN "DOUBLE" ELSE "SINGLE"

\* mutant: the oxygen rule looks at the first atom only
BondTypeOf_firstOxygen(z1, z2) ==
    IF z1 = 1 /\ z2 = 1 THEN "SINGLE"
    ELSE IF (z1 = 1 /\ z2 = 8) \/ (z1 = 8 /\ z2 = 1) THEN "SINGLE"
    ELSE IF z1 = 8 THEN "DOUBLE"
    ELSE IF z1 = 7 /\ z2 = 7 THEN "TRIPLE"
    ELSE "SINGLE"

\* the chain of tests of determineBondType on the two atomic numbers
BondTypeOf(z1, z2) ==
    IF z1 = 1 /\ z2 = 1 THEN "SINGLE"
    ELSE IF (z1 = 1 /\ z2 = 8) \/ (z1 = 8 /\ z2 = 1) THEN "SINGLE"
    ELSE IF z1 = 8 /\ z2 = 8 THEN "DOUBLE"
    ELSE IF z1 = 7 /\ z2 = 7 THEN "TRIPLE"
    ELSE "SINGLE"

\* BondCalculator::determineBondType on two atoms
determineBondType(as, atom1, atom2) ==
    BondTypeOf(as[atom1].atomicNumber, as[atom2].atomicNumber)

\* mutant: the constructor leaves the triple bond out of the table
getBondEnergy_noTriple(type) ==
    CASE type = "SINGLE" -> 4500000
      [] type = "DOUBLE" -> 8000000
      [] type = "IONIC" -> 5000000
      [] type = "METALLIC" -> 2000000
      [] type = "HYDROGEN" -> 200000
      [] OTHER -> 0

\* BondCalculator::getBondEnergy, in micro-eV: the table the constructor
\* fills, 0 for a type it does not hold
getBondEnergy(type) ==
    CASE type = "SINGLE" -> 4500000
      [] type = "DOUBLE" -> 8000000
      [] type = "TRIPLE" -> 10000000
      [] type = "IONIC" -> 5000000
      [] type = "METALLIC" -> 2000000
      [] type = "HYDROGEN" -> 200000
      [] OTHER -> 0

DetermineBondType(atom1, atom2, null) ==
    /\ signal = "none"
    /\ calls < MaxBondCalls
    /\ IF atom1 = 0 \/ atom2 = 0
       THEN /\ signal' = IF null = "fault" THEN "SIGSEGV" ELSE signal
            /\ lastCall' = Called("determineBondType", <<atom1, atom2>>, "SINGLE")
       ELSE /\ null = "read"
            /\ signal' = signal
            /\ lastCall' = Called("determineBondType", <<atom1, atom2>>,
                                  determineBondType(atoms, atom1, atom2))
    /\ calls' = calls + 1
    /\ UNCHANGED <<particles, atoms, molecules, m_atoms, m_molecules, registered>>
    /\ UNCHANGED <<kvars, app>>

GetBondEnergy(type) ==
    /\ signal = "none"
    /\ calls < MaxBondCalls
    /\ lastCall' = Called("getBondEnergy", <<type>>, getBondEnergy(type))
    /\ calls' = calls + 1
    /\ UNCHANGED <<particles, atoms, molecules, m_atoms, m_molecules, registered>>
    /\ UNCHANGED <<kvars, app, signal>>

BondNext ==
    \/ /\ signal = "none" /\ calls < MaxBondCalls
       /\ \E in \in BondAtomInputs : NewAtom(in[1], in[2], in[3])
    \/ \E a1, a2 \in 0..Len(atoms), null \in NullOutcomes : DetermineBondType(a1, a2, null)
    \/ \E type \in BondTypeInputs : GetBondEnergy(type)

BondSpec == Init /\ [][BondNext]_vars


\* =========================================================================
\* Atom's own operations (AtomSpec)
\* =========================================================================
\* the positions handed to Atom::setPosition
AtomPoints == {<<0, 0, 0>>, <<4, 0, 0>>}

\* <<position, velocity, orbitalLevel>> of the electrons made on their own
ElectronInputs == {<<<<1, 0, 0>>, <<0, 2, 0>>, 2>>}

\* std::make_shared<Electron>(position, velocity, orbitalLevel)
NewElectron(position, velocity, orbitalLevel) ==
    /\ calls < MaxCalls
    /\ particles' = Append(particles, Electron(position, velocity, orbitalLevel))
    /\ calls' = calls + 1
    /\ lastCall' = Called("Electron", <<position, velocity, orbitalLevel>>, Len(particles) + 1)
    /\ UNCHANGED <<atoms, molecules, m_atoms, m_molecules, registered>>
    /\ UNCHANGED <<kvars, app, signal>>

\* Atom::getPosition
getPosition(ps, atom) == ps[atom.nucleus].position

AtomGetPosition(a) ==
    /\ calls < MaxCalls
    /\ calls' = calls + 1
    /\ lastCall' = Called("getPosition", <<a>>, getPosition(particles, atoms[a]))
    /\ UNCHANGED <<particles, atoms, molecules, m_atoms, m_molecules, registered>>
    /\ UNCHANGED <<kvars, app, signal>>

\* mutant: the delta is the new position itself
Delta_fromOrigin(position, nucleusPosition) == position

\* delta = position - m_nucleus->getPosition()
Delta(position, nucleusPosition) == VSub(position, nucleusPosition)

\* electron->getPosition() + delta
ShiftedPosition(electronPosition, delta) == VAdd(electronPosition, delta)

\* the loop of setPosition over m_electrons: an electron object the list
\* holds twice is shifted twice
RECURSIVE ShiftElectrons(_, _, _, _)
ShiftElectrons(ps, electrons, k, delta) ==
    IF k > Len(electrons) THEN ps
    ELSE ShiftElectrons([ps EXCEPT ![electrons[k]].position = ShiftedPosition(@, delta)],
                        electrons, k + 1, delta)

\* Atom::setPosition: the particles after the call
setPosition(ps, atom, position) ==
    LET delta == Delta(position, ps[atom.nucleus].position)
    IN ShiftElectrons([ps EXCEPT ![atom.nucleus].position = position],
                      atom.electrons, 1, delta)

AtomSetPosition(a, position) ==
    /\ calls < MaxCalls
    /\ particles' = setPosition(particles, atoms[a], position)
    /\ calls' = calls + 1
    /\ lastCall' = Called("setPosition", <<a, position>>, 0)
    /\ UNCHANGED <<atoms, molecules, m_atoms, m_molecules, registered>>
    /\ UNCHANGED <<kvars, app, signal>>

\* Atom::addElectron
AtomAddElectron(a, electron) ==
    /\ calls < MaxCalls
    /\ atoms' = [atoms EXCEPT ![a].electrons = Append(@, electron)]
    /\ calls' = calls + 1
    /\ lastCall' = Called("addElectron", <<a, electron>>, 0)
    /\ UNCHANGED <<particles, molecules, m_atoms, m_molecules, registered>>
    /\ UNCHANGED <<kvars, app, signal>>

AtomNext ==
    \/ /\ calls < MaxAtomCalls
       /\ \E in \in AtomInputs : NewAtom(in[1], in[2], in[3])
    \/ /\ calls < MaxAtomCalls
       /\ \E in \in ElectronInputs : NewElectron(in[1], in[2], in[3])
    \/ /\ calls < MaxAtomCalls
       /\ \E a \in 1..Len(atoms) : AtomGetPosition(a)
    \/ /\ calls < MaxAtomCalls
       /\ \E a \in 1..Len(atoms), p \in AtomPoints : AtomSetPosition(a, p)
    \/ /\ calls < MaxAtomCalls
       /\ \E a \in 1..Len(atoms), e \in ElectronIds : AtomAddElectron(a, e)
    \/ /\ calls < MaxAtomCalls
       /\ \E a \in 1..Len(atoms), e \in {0} \cup ElectronIds : RemoveElectron(a, e)

AtomSpec == Init /\ [][AtomNext]_vars


\* -------------------------------------------------------------------------
\* Atoms moved by the engine and then placed (PlacementSpec)
\* -------------------------------------------------------------------------
\* <<atomicNumber, massNumber, position>> of the atoms placed
PlacementAtomInputs == {<<1, 1, <<0, 0, 0>>>>, <<1, 1, <<0, 3, 4>>>>}

PlacementDts == {1}

PlacementNext ==
    \/ /\ calls < MaxPlacementCalls
       /\ \E in \in PlacementAtomInputs : NewAtom(in[1], in[2], in[3])
    \/ /\ calls < MaxPlacementCalls
       /\ \E a \in 1..Len(atoms), e \in ElectronIds : AtomAddElectron(a, e)
    \/ /\ calls < MaxPlacementCalls
       /\ \E a \in 1..Len(atoms) : EngineAddAtom(a)
    \/ /\ calls < MaxPlacementCalls
       /\ \E dt \in PlacementDts : EngineUpdate(dt)
    \/ /\ calls < MaxPlacementCalls
       /\ \E a \in 1..Len(atoms), p \in AtomPoints : AtomSetPosition(a, p)

PlacementSpec == Init /\ [][PlacementNext]_vars

\* =========================================================================
\* SandboxSimulation: main() and the frame loop (FrameSpec).  The engine is
\* seen through the lengths of its two lists and through the place the
\* program is at inside PhysicsEngine::update.
\* =========================================================================
\* seconds between two frames
FrameDts == {0, 6}

FrameKeys == {"F", "E"}

\* demoTimer > 10.0f
DEMO_PERIOD == 10

\* the atoms demonstrateH2OMolecule puts in the molecule, and the atoms
\* setupScene adds after it
H2O_ATOMS == 3
SCENE_ATOMS == 2

\* the places inside PhysicsEngine::update, after step 1 and after step 2
EngineSteps == {"engineSolve", "engineIntegrate"}

\* SandboxSimulation::initialize, setupScene included, then run() is entered
Initialize(ok) ==
    /\ app.pc = "main"
    /\ app' = IF ok
              THEN [app EXCEPT !.pc = "loopTest", !.m_running = TRUE,
                               !.moleculeCount = @ + 1,
                               !.atomCount = @ + H2O_ATOMS + SCENE_ATOMS]
              ELSE [app EXCEPT !.pc = "returned"]
    /\ UNCHANGED <<kvars, evars>>

\* the test of the while loop and the measurement of deltaTime
LoopTest(deltaTime) ==
    /\ app.pc = "loopTest"
    /\ IF app.m_running /\ ~app.shouldClose
       THEN /\ app.frame < MaxFrames
            /\ app' = [app EXCEPT !.pc = "handleInput", !.frame = @ + 1, !.updates = 0,
                                  !.deltaTime = deltaTime]
       ELSE app' = [app EXCEPT !.pc = "returned"]
    /\ UNCHANGED <<kvars, evars>>

\* SandboxSimulation::handleInput
HandleInput(escape) ==
    /\ app.pc = "handleInput"
    /\ app' = [app EXCEPT !.pc = "update", !.m_running = IF escape THEN FALSE ELSE @]
    /\ UNCHANGED <<kvars, evars>>

\* PhysicsEngine::update, step 1: the particles of the listed atoms are gathered
EngineGather ==
    /\ app.pc = "update"
    /\ app' = [app EXCEPT !.pc = "engineSolve"]
    /\ UNCHANGED <<kvars, evars>>

\* step 2: the forces are solved
EngineSolve ==
    /\ app.pc = "engineSolve"
    /\ app' = [app EXCEPT !.pc = "engineIntegrate"]
    /\ UNCHANGED <<kvars, evars>>

\* step 3: the particles are integrated, and update returns
EngineIntegrate ==
    /\ app.pc = "engineIntegrate"
    /\ app' = [app EXCEPT !.pc = "demoTimer", !.updates = @ + 1]
    /\ UNCHANGED <<kvars, evars>>

\* the rest of SandboxSimulation::update: the periodic demonstrations, of
\* which demonstrateFission adds an atom to the engine
DemoTimer ==
    /\ app.pc = "demoTimer"
    /\ LET demoTimer == app.demoTimer + app.deltaTime
       IN app' = IF demoTimer > DEMO_PERIOD
                 THEN [app EXCEPT !.pc = "renderScene", !.demoTimer = 0,
                                  !.atomCount = @ + 1]
                 ELSE [app EXCEPT !.pc = "renderScene", !.demoTimer = demoTimer]
    /\ UNCHANGED <<kvars, evars>>

\* Renderer::render(getAtoms(), getMolecules(), deltaTime)
RenderScene ==
    /\ app.pc = "renderScene"
    /\ app' = [app EXCEPT !.pc = "renderUI"]
    /\ UNCHANGED <<kvars, evars>>

\* ImGuiManager::render: the atom palette, then the bonding controls
RenderUI(createAtom, bondFirstTwo) ==
    /\ app.pc = "renderUI"
    /\ LET afterPalette == app.atomCount + (IF createAtom THEN 1 ELSE 0)
           bonded == bondFirstTwo /\ afterPalette >= 2
       IN app' = [app EXCEPT !.pc = "pollEvents", !.keyEvents = 0,
                             !.atomCount = afterPalette + (IF bonded THEN 2 ELSE 0),
                             !.moleculeCount = @ + (IF bonded THEN 1 ELSE 0)]
    /\ UNCHANGED <<kvars, evars>>

\* mutant: a key callback runs whenever the key is pressed
CallbacksRunAt_anyPlace(pc) == pc \notin {"main", "returned"}

\* GLFW calls the callbacks from glfwPollEvents
CallbacksRunAt(pc) == pc = "pollEvents"

\* SandboxSimulation::keyCallback: F is demonstrateFission, which adds an
\* atom; E is demonstrateElectronJump
KeyCallback(key) ==
    /\ CallbacksRunAt(app.pc)
    /\ app.keyEvents < MaxKeyEvents
    /\ app' = [app EXCEPT !.keyEvents = @ + 1,
                          !.atomCount = @ + (IF key = "F" THEN 1 ELSE 0)]
    /\ UNCHANGED <<kvars, evars>>

\* glfwPollEvents returns; the window may have been asked to close
PollEventsReturn(close) ==
    /\ app.pc = "pollEvents"
    /\ app' = [app EXCEPT !.pc = "loopTest", !.shouldClose = @ \/ close]
    /\ UNCHANGED <<kvars, evars>>

FrameNext ==
    \/ \E ok \in BOOLEAN : Initialize(ok)
    \/ \E dt \in FrameDts : LoopTest(dt)
    \/ \E escape \in BOOLEAN : HandleInput(escape)
    \/ EngineGather
    \/ EngineSolve
    \/ EngineIntegrate
    \/ DemoTimer
    \/ RenderScene
    \/ \E createAtom, bondFirstTwo \in BOOLEAN : RenderUI(createAtom, bondFirstTwo)
    \/ \E key \in FrameKeys : KeyCallback(key)
    \/ \E close \in BOOLEAN : PollEventsReturn(close)

FrameSpec == Init /\ [][FrameNext]_vars

\* =========================================================================
\* Claims on the kernel harness (KernelSpec)
\* =========================================================================
RECURSIVE VSum(_)
VSum(fs) == IF fs = <<>> THEN Zero3 ELSE VAdd(Head(fs), VSum(Tail(fs)))

RemoveAt(s, j) == SubSeq(s, 1, j - 1) \o SubSeq(s, j + 1, Len(s))

Solved == kPhase = "solved"

\* the squared distance of entries k and l of the input list
Dist2(k, l) == VDot(VSub(kParticles[k].position, kParticles[l].position),
                    VSub(kParticles[k].position, kParticles[l].position))

Near(k, l) == Dist2(k, l) < EPSILON * EPSILON

\* C1: the force vectors calculateForces returns sum to the zero vector, for
\* every particle list (coincident and repeated particles included).
C1_ForcesSumToZero == Solved => VSum(kForces) = Zero3

C1_Witness ==
    /\ Solved
    /\ Len(kParticles) = 3
    /\ \E i, j \in 1..3 : i < j /\ kParticles[i] = kParticles[j]
    /\ \E k \in 1..3 : kForces[k] # Zero3

\* what the pair {i, j} added to entry i's accumulator: the force on i with
\* entry j in the list less the force on i with entry j taken out
Contribution(i, j) ==
    VSub(kForces[i], calculateForces(RemoveAt(kParticles, j))[IF i < j THEN i ELSE i - 1])

\* C2: for every pair i < j, what the pair adds to i's accumulator is exactly
\* the negation of what it adds to j's; for a two-particle list
\* forces[0] = -forces[1].
C2_PairAntisymmetric ==
    Solved =>
        /\ \A i, j \in 1..Len(kParticles) :
              i < j => Contribution(i, j) = VNeg(Contribution(j, i))
        /\ Len(kParticles) = 2 => kForces[1] = VNeg(kForces[2])

C2_Witness ==
    /\ Solved
    /\ Len(kParticles) = 3
    /\ \A i, j \in 1..3 : i < j => ~Near(i, j) /\ Contribution(i, j) # Zero3

\* C3: for a non-skipped pair the force on i is k_e*q_i*q_j/d^2 along
\* (pos(i) - pos(j))/d: away from j for like charges, toward j for unlike
\* charges, zero when a charge is zero.  With r = pos(i) - pos(j) and the
\* distance d exact, force * d^3 = k_e*q_i*q_j * r; with d rounded, the
\* direction is stated componentwise.
C3_ForceLaw ==
    (Solved /\ Len(kParticles) = 2 /\ ~Near(1, 2)) =>
        LET qq == kParticles[1].charge * kParticles[2].charge
            r == VSub(kParticles[1].position, kParticles[2].position)
            d == VLength(r)
            f == kForces[1]
        IN /\ qq = 0 => f = Zero3
           /\ \A c \in 1..3 :
                 /\ qq > 0 => f[c] * r[c] >= 0
                 /\ qq < 0 => f[c] * r[c] <= 0
                 /\ r[c] = 0 => f[c] = 0
           /\ d * d = Dist2(1, 2) =>
                 \A c \in 1..3 : f[c] * d * d * d = COULOMB_CONSTANT * qq * r[c]

C3_Witness ==
    /\ Solved
    /\ Len(kParticles) = 2
    /\ kParticles[1].charge * kParticles[2].charge < 0
    /\ Dist2(1, 2) = 25
    /\ kForces[1][2] # 0 /\ kForces[1][3] # 0

\* the force on entry k from entry l alone
Alone(k, l) == calculateForces(<<kParticles[k], kParticles[l]>>)[1]

RECURSIVE SumOverFar(_, _)
SumOverFar(k, l) ==
    IF l = 0 THEN Zero3
    ELSE VAdd(SumOverFar(k, l - 1),
              IF l = k \/ Near(k, l) THEN Zero3 ELSE Alone(k, l))

\* C4: a pair closer than the epsilon adds nothing to either particle and
\* every other pair is still processed: the force on k is the sum over the
\* entries l farther than the epsilon of the force from l alone.  One zero
\* vector per particle for an empty list, a single particle, and particles
\* all at one position.
C4_CloseSkipped ==
    Solved =>
        /\ Len(kForces) = Len(kParticles)
        /\ \A k \in 1..Len(kParticles) : kForces[k] = SumOverFar(k, Len(kParticles))
        /\ (\A k, l \in 1..Len(kParticles) : kParticles[k].position = kParticles[l].position)
              => \A k \in 1..Len(kForces) : kForces[k] = Zero3

C4_Witness ==
    /\ Solved
    /\ Len(kParticles) = 3
    /\ Near(1, 2) /\ Dist2(1, 2) > 0
    /\ kParticles[1].charge # 0 /\ kParticles[2].charge # 0
    /\ ~Near(1, 3) /\ kForces[1] # Zero3 /\ kForces[1] = Alone(1, 3)

\* C5: Particle::update sets velocity' = velocity + (force/mass)*dt, then
\* position' = position + velocity'*dt (the advanced velocity); mass, charge
\* and type are unchanged; zero force and zero velocity leave it in place.
C5_UpdateSemiImplicit ==
    kPhase = "integrated" =>
        LET b == kLast.before
            a == kLast.after
            dt == kLast.deltaTime
        IN /\ \A c \in 1..3 :
                 /\ a.velocity[c] = b.velocity[c] + TruncDiv(kLast.force[c], b.mass) * dt
                 /\ a.position[c] = b.position[c] + a.velocity[c] * dt
           /\ a.mass = b.mass /\ a.charge = b.charge /\ a.type = b.type
           /\ (kLast.force = Zero3 /\ b.velocity = Zero3) => a.position = b.position
           /\ a = kParticles[kLast.k]

C5_Witness ==
    /\ kPhase = "integrated"
    /\ kLast.deltaTime = 2
    /\ kLast.before.velocity # Zero3
    /\ \E c \in 1..3 : TruncDiv(kLast.force[c], kLast.before.mass) # 0
    /\ kLast.after.position # kLast.before.position

\* =========================================================================
\* Claims on the engine (Spec) and on electron jumps (OrbitalSpec)
\* =========================================================================
\* the particle list of an update, stated from the last atom backwards
RECURSIVE C6_List(_)
C6_List(n) ==
    IF n = 0 THEN <<>>
    ELSE C6_List(n - 1) \o <<atoms[m_atoms[n]].nucleus>> \o atoms[m_atoms[n]].electrons

\* particle object pid after the list entries k.. that name it are integrated
RECURSIVE C6_After(_, _, _, _, _, _)
C6_After(p, pid, list, forces, k, dt) ==
    IF k > Len(list) THEN p
    ELSE C6_After(IF list[k] = pid THEN ParticleUpdate(p, forces[k], dt) ELSE p,
                  pid, list, forces, k + 1, dt)

C6_Expected(dt) ==
    LET list == C6_List(Len(m_atoms))
        startForces == calculateForces([k \in 1..Len(list) |-> particles[list[k]]])
    IN [pid \in 1..Len(particles) |->
            C6_After(particles[pid], pid, list, startForces, 1, dt)]

\* C6: update gathers each atom's nucleus followed by its electrons, atoms in
\* registration order, solves the forces once from the positions held at the
\* start of the step, and then integrates entry k with forces[k] and dt: no
\* particle's new position enters a force of the same step.
C6_UpdateFromStartPositions ==
    [][lastCall'.op = "update" =>
          /\ Len(particles') = Len(particles)
          /\ \A pid \in 1..Len(particles) :
                particles'[pid] = C6_Expected(lastCall'.args[1])[pid]]_vars

C6_Witness ==
    /\ lastCall.op = "update"
    /\ Len(m_atoms) >= 2
    /\ \E a \in Range(m_atoms) :
          \E e \in Range(atoms[a].electrons) :
              /\ ~VHasNaN(particles[e].velocity)
              /\ particles[e].velocity # Zero3
              /\ particles[e].position # particles[atoms[a].nucleus].position

\* C7: addMolecule(m) appends m to the molecule list and every atom m holds
\* at that moment to the atom list, in the molecule's order and without
\* deduplication; addAtom(a) appends exactly a; no existing entry changes.
C7_AddAppends ==
    [][/\ lastCall'.op = "addMolecule" =>
            LET m == lastCall'.args[1]
                held == molecules[m].atoms
            IN /\ Len(m_molecules') = Len(m_molecules) + 1
               /\ m_molecules'[Len(m_molecules')] = m
               /\ \A k \in 1..Len(m_molecules) : m_molecules'[k] = m_molecules[k]
               /\ Len(m_atoms') = Len(m_atoms) + Len(held)
               /\ \A k \in 1..Len(m_atoms) : m_atoms'[k] = m_atoms[k]
               /\ \A k \in 1..Len(held) : m_atoms'[Len(m_atoms) + k] = held[k]
               /\ UNCHANGED <<particles, atoms, molecules>>
       /\ lastCall'.op = "addAtom" =>
            /\ Len(m_atoms') = Len(m_atoms) + 1
            /\ m_atoms'[Len(m_atoms')] = lastCall'.args[1]
            /\ \A k \in 1..Len(m_atoms) : m_atoms'[k] = m_atoms[k]
            /\ UNCHANGED <<particles, atoms, molecules, m_molecules>>]_vars

C7_Witness ==
    /\ lastCall.op = "addMolecule"
    /\ Len(molecules[lastCall.args[1]].atoms) >= 1
    /\ Len(m_atoms) > Len(molecules[lastCall.args[1]].atoms)
    /\ \E i, j \in 1..Len(m_atoms) : i < j /\ m_atoms[i] = m_atoms[j]

\* C8 as claimed: every atom of a molecule registered with the engine is in
\* the engine's atom list, in every reachable state.
C8_RegisteredMoleculeAtomsListed ==
    \A k \in 1..Len(m_molecules) :
        Range(molecules[m_molecules[k]].atoms) \subseteq Range(m_atoms)

IsPrefix(s, t) == Len(s) <= Len(t) /\ \A k \in 1..Len(s) : s[k] = t[k]

\* C8 as amended: every atom a registered molecule held when it was
\* registered is in the engine's atom list; what Molecule::addAtom adds to it
\* afterwards is not.
C8_AtomsHeldAtRegistrationListed ==
    /\ Len(registered) = Len(m_molecules)
    /\ \A k \in 1..Len(m_molecules) :
          /\ IsPrefix(registered[k], molecules[m_molecules[k]].atoms)
          /\ Range(registered[k]) \subseteq Range(m_atoms)

C8_Witness ==
    /\ lastCall.op = "Molecule::addAtom"
    /\ \E k \in 1..Len(m_molecules) :
          /\ m_molecules[k] = lastCall.args[1]
          /\ Len(registered[k]) >= 1
          /\ Len(molecules[m_molecules[k]].atoms) > Len(registered[k])
          /\ lastCall.args[2] \notin Range(m_atoms)

\* C9 as claimed: every particle update integrates has a mass > 0, the
\* nucleus of every Atom(Z, A) with Z >= 0 and A >= Z included.
C9_IntegratedMassPositive ==
    lastCall.op = "update" =>
        \A a \in Range(m_atoms) :
            /\ atoms[a].atomicNumber >= 0 /\ atoms[a].massNumber >= atoms[a].atomicNumber
            /\ particles[atoms[a].nucleus].mass > 0
            /\ \A e \in Range(atoms[a].electrons) : particles[e].mass > 0

\* C10: simulateElectronJump with newLevel <= 0 returns 0 and changes no
\* field of any electron or atom.
C10_RejectedJumpIsNoOp ==
    [][(lastCall'.op = "simulateElectronJump" /\ lastCall'.args[3] <= 0) =>
          /\ lastCall'.ret = 0
          /\ UNCHANGED <<particles, atoms, molecules, m_atoms, m_molecules>>]_vars

C10_Witness ==
    /\ lastCall.op = "simulateElectronJump"
    /\ lastCall.args[3] = 0
    /\ lastCall.args[1] # 0 /\ lastCall.args[2] # 0
    /\ atoms[lastCall.args[2]].atomicNumber >= 1
    /\ lastCall.args[1] \in Range(atoms[lastCall.args[2]].electrons)
    /\ particles[lastCall.args[1]].orbitalLevel = 2

\* the arguments of a jump made with an electron and an atom
IsJump(call) ==
    /\ call.op = "simulateElectronJump"
    /\ call.args[1] # 0
    /\ call.args[2] # 0

\* -R * Z^2 / n^2 in micro-eV, rounded toward zero as the program's value is
C11_E(Z, n) == 0 - ((RYDBERG_CONSTANT_EV * Z * Z) \div (n * n))

C13_E(Z, n) == 0 - (((RYDBERG_CONSTANT_EV * Z * Z) \div n) \div n)

\* C13 as claimed: calculateOrbitalEnergy(Z, n) returns 0 for every n <= 0
\* and -13.605693 * Z^2 / n^2 for every n >= 1, for all int Z and n; that
\* value is never positive, is negative for Z >= 1 and rises toward 0 with n.
C13_EnergyFormula ==
    lastCall.op = "calculateOrbitalEnergy" =>
        LET Z == lastCall.args[1]
            n == lastCall.args[2]
        IN /\ signal = "none"
           /\ n <= 0 => lastCall.ret = 0
           /\ n >= 1 => /\ lastCall.ret = C13_E(Z, n)
                        /\ lastCall.ret <= 0
                        /\ \A m \in EnergyLevels :
                              (1 <= m /\ m < n) => C13_E(Z, m) <= lastCall.ret

\* C14: energyToWavelengthNm(dE) is 1240 / |dE| for dE # 0, the same for dE
\* and -dE, and +infinity for dE = 0; classifyBand(w) is Ultraviolet for
\* w < 380, Visible for 380 <= w <= 750 and Infrared for w > 750.
C14_WavelengthAndBand ==
    /\ lastCall.op = "energyToWavelengthNm" =>
          LET dE == lastCall.args[1]
          IN /\ dE > 0 => lastCall.ret = 1240000000 \div dE
             /\ dE < 0 => lastCall.ret = 1240000000 \div (0 - dE)
             /\ dE = 0 => lastCall.ret = Infinity
             /\ energyToWavelengthNm(0 - dE) = lastCall.ret
    /\ lastCall.op = "classifyBand" =>
          LET w == lastCall.args[1]
          IN /\ w < 380 => lastCall.ret = "ULTRAVIOLET"
             /\ (380 <= w /\ w <= 750) => lastCall.ret = "VISIBLE"
             /\ w > 750 => lastCall.ret = "INFRARED"
             /\ lastCall.ret \in {"ULTRAVIOLET", "VISIBLE", "INFRARED"}

C14_Witness ==
    /\ lastCall.op = "classifyBand"
    /\ lastCall.args[1] = 750
    /\ lastCall.ret = "VISIBLE"

IsU235(p) == p.atomicNumber = 92 /\ p.massNumber = 235

IsD(p) == p.atomicNumber = 1 /\ p.massNumber = 2

IsT(p) == p.atomicNumber = 1 /\ p.massNumber = 3

\* C15 as claimed: simulateFission returns a strictly positive energy for a
\* nucleus with Z = 92 and A = 235 and exactly 0 for every other nucleus.
C15_FissionOnlyU235 ==
    (lastCall.op = "simulateFission" /\ lastCall.args[1] # 0) =>
        /\ IsU235(particles[lastCall.args[1]]) => lastCall.ret > 0
        /\ ~IsU235(particles[lastCall.args[1]]) => lastCall.ret = 0

\* C16: simulateFusion(n1, n2) returns a strictly positive energy exactly
\* when one nucleus is deuterium and the other tritium, in either order, and
\* 0 for every other pair; swapping the arguments never changes the result.
C16_FusionOnlyDT ==
    (lastCall.op = "simulateFusion" /\ lastCall.args[1] # 0 /\ lastCall.args[2] # 0) =>
        LET p1 == particles[lastCall.args[1]]
            p2 == particles[lastCall.args[2]]
            pairDT == (IsD(p1) /\ IsT(p2)) \/ (IsT(p1) /\ IsD(p2))
        IN /\ pairDT => lastCall.ret > 0
           /\ ~pairDT => lastCall.ret = 0
           /\ simulateFusion(particles, lastCall.args[2], lastCall.args[1]) = lastCall.ret

C16_Witness ==
    /\ lastCall.op = "simulateFusion"
    /\ lastCall.args[1] # 0 /\ lastCall.args[2] # 0
    /\ IsT(particles[lastCall.args[1]])
    /\ IsD(particles[lastCall.args[2]])
    /\ lastCall.ret > 0

C18_NoCallEndsTheProcess ==
    /\ signal = "none"
    /\ (lastCall.op = "simulateFission" /\ lastCall.args[1] = 0) => lastCall.ret = 0
    /\ (lastCall.op = "simulateFusion" /\ (lastCall.args[1] = 0 \/ lastCall.args[2] = 0)) =>
          lastCall.ret = 0

IsBondCall(call) ==
    /\ call.op = "determineBondType"
    /\ call.args[1] # 0
    /\ call.args[2] # 0

\* C19: determineBondType(a, b) depends only on the two atomic numbers: both
\* 1 gives Single, 1 with 8 gives Single, both 8 gives Double, both 7 gives
\* Triple, every other pair gives Single; never Ionic, Metallic or Hydrogen.
C19_BondTypeTable ==
    IsBondCall(lastCall) =>
        LET Z1 == atoms[lastCall.args[1]].atomicNumber
            Z2 == atoms[lastCall.args[2]].atomicNumber
        IN /\ (Z1 = 1 /\ Z2 = 1) => lastCall.ret = "SINGLE"
           /\ ({Z1, Z2} = {1, 8}) => lastCall.ret = "SINGLE"
           /\ (Z1 = 8 /\ Z2 = 8) => lastCall.ret = "DOUBLE"
           /\ (Z1 = 7 /\ Z2 = 7) => lastCall.ret = "TRIPLE"
           /\ (Z1 # Z2 \/ Z1 \notin {7, 8}) => lastCall.ret = "SINGLE"
           /\ lastCall.ret \notin {"IONIC", "METALLIC", "HYDROGEN"}
           /\ \A b1, b2 \in 1..Len(atoms) :
                 (atoms[b1].atomicNumber = Z1 /\ atoms[b2].atomicNumber = Z2) =>
                     determineBondType(atoms, b1, b2) = lastCall.ret

C19_Witness ==
    /\ IsBondCall(lastCall)
    /\ lastCall.args[1] # lastCall.args[2]
    /\ atoms[lastCall.args[1]].atomicNumber = 7
    /\ atoms[lastCall.args[2]].atomicNumber = 7
    /\ lastCall.ret = "TRIPLE"

\* C20: determineBondType is symmetric: the result for (a, b) is the result
\* for (b, a), for every pair of atoms.
C20_BondTypeSymmetric ==
    IsBondCall(lastCall) =>
        determineBondType(atoms, lastCall.args[2], lastCall.args[1]) = lastCall.ret

C20_Witness ==
    /\ IsBondCall(lastCall)
    /\ atoms[lastCall.args[1]].atomicNumber = 8
    /\ atoms[lastCall.args[2]].atomicNumber = 7
    /\ lastCall.ret = "SINGLE"

\* C21: getBondEnergy returns Single 4.5, Double 8.0, Triple 10.0, Ionic 5.0,
\* Metallic 2.0 and Hydrogen 0.2 eV and returns 0 only for a type outside the
\* table; hence for every pair of atoms getBondEnergy(determineBondType(a, b))
\* is one of 4.5, 8.0 or 10.0 eV and never the 0 sentinel.
C21_BondEnergyTable ==
    /\ lastCall.op = "getBondEnergy" =>
          LET type == lastCall.args[1]
          IN /\ type = "SINGLE" => lastCall.ret = 4500000
             /\ type = "DOUBLE" => lastCall.ret = 8000000
             /\ type = "TRIPLE" => lastCall.ret = 10000000
             /\ type = "IONIC" => lastCall.ret = 5000000
             /\ type = "METALLIC" => lastCall.ret = 2000000
             /\ type = "HYDROGEN" => lastCall.ret = 200000
             /\ lastCall.ret = 0 <=> type \notin BondTypes
    /\ \A a, b \in 1..Len(atoms) :
          getBondEnergy(determineBondType(atoms, a, b)) \in {4500000, 8000000, 10000000}

C21_Witness ==
    /\ lastCall.op = "getBondEnergy"
    /\ lastCall.args[1] = "TRIPLE"
    /\ lastCall.ret = 10000000
    /\ \E a, b \in 1..Len(atoms) :
          a # b /\ determineBondType(atoms, a, b) = "TRIPLE"

\* =========================================================================
\* Claims on Atom's own operations (AtomSpec)
\* =========================================================================
\* C22: constructing Atom(Z, A, p) yields exactly one nucleus carrying Z and
\* A at position p with zero velocity, and exactly Z electrons, each at
\* position p with zero velocity and orbital level 1; getPosition() returns
\* the nucleus position.
C22_AtomConstruction ==
    [][/\ lastCall'.op = "Atom" =>
            LET Z == lastCall'.args[1]
                A == lastCall'.args[2]
                p == lastCall'.args[3]
                atom == atoms'[lastCall'.ret]
                made == {pid \in 1..Len(particles') : pid > Len(particles)}
            IN /\ Len(atoms') = Len(atoms) + 1
               /\ lastCall'.ret = Len(atoms')
               /\ atom.atomicNumber = Z /\ atom.massNumber = A
               /\ particles'[atom.nucleus].type = "NUCLEUS"
               /\ particles'[atom.nucleus].atomicNumber = Z
               /\ particles'[atom.nucleus].massNumber = A
               /\ particles'[atom.nucleus].position = p
               /\ particles'[atom.nucleus].velocity = Zero3
               /\ Len(atom.electrons) = Z
               /\ \A i \in 1..Len(atom.electrons) :
                     /\ particles'[atom.electrons[i]].type = "ELECTRON"
                     /\ particles'[atom.electrons[i]].position = p
                     /\ particles'[atom.electrons[i]].velocity = Zero3
                     /\ particles'[atom.electrons[i]].orbitalLevel = 1
                     /\ \A j \in 1..Len(atom.electrons) :
                           i # j => atom.electrons[i] # atom.electrons[j]
               /\ made = {atom.nucleus} \cup Range(atom.electrons)
               /\ Cardinality(made) = Z + 1
               /\ getPosition(particles', atom) = p
       /\ lastCall'.op = "getPosition" =>
            lastCall'.ret = particles[atoms[lastCall'.args[1]].nucleus].position]_vars

C22_Witness ==
    /\ lastCall.op = "Atom"
    /\ lastCall.args[1] = 2
    /\ lastCall.ret = 2
    /\ Len(atoms[2].electrons) = 2
    /\ \A i \in 1..2 : particles[atoms[2].electrons[i]].orbitalLevel = 1
    /\ particles[atoms[2].nucleus].position = lastCall.args[3]

\* C23 as claimed: setPosition(p) places the nucleus at p and shifts every
\* electron of the atom by the same delta, p minus the previous nucleus
\* position, so each electron's offset from the nucleus is the same before
\* and after the call; velocities and orbital levels are unchanged.
C23_RigidShift ==
    [][lastCall'.op = "setPosition" =>
          LET atom == atoms[lastCall'.args[1]]
              p == lastCall'.args[2]
              previous == particles[atom.nucleus].position
          IN /\ particles'[atom.nucleus].position = p
             /\ \A e \in Range(atom.electrons) :
                   /\ particles'[e].position = VAdd(particles[e].position, VSub(p, previous))
                   /\ VSub(particles'[e].position, p) = VSub(particles[e].position, previous)
             /\ Len(particles') = Len(particles)
             /\ \A pid \in 1..Len(particles) :
                   /\ particles'[pid].velocity = particles[pid].velocity
                   /\ particles'[pid].orbitalLevel = particles[pid].orbitalLevel
             /\ UNCHANGED <<atoms, molecules, m_atoms, m_molecules>>]_vars

\* the atom's list holds electron e exactly once
ListedOnce(atom, e) == Cardinality({i \in 1..Len(atom.electrons) : atom.electrons[i] = e}) = 1

RECURSIVE C26_Others(_, _, _)
C26_Others(list, e, n) ==
    IF n = 0 THEN <<>>
    ELSE IF list[n] = e THEN C26_Others(list, e, n - 1)
         ELSE Append(C26_Others(list, e, n - 1), list[n])

\* C26: removeElectron(e) returns true exactly when e was in the atom's
\* electron list; after true e no longer occurs in the list and the other
\* electrons keep their relative order; after false the list is unchanged;
\* addElectron and removeElectron never change the atom's atomic number, mass
\* number or nucleus.
C26_RemoveElectron ==
    [][/\ lastCall'.op = "removeElectron" =>
            LET a == lastCall'.args[1]
                e == lastCall'.args[2]
                before == atoms[a].electrons
                after == atoms'[a].electrons
            IN /\ lastCall'.ret = (\E i \in 1..Len(before) : before[i] = e)
               /\ lastCall'.ret = TRUE =>
                     /\ \A i \in 1..Len(after) : after[i] # e
                     /\ after = C26_Others(before, e, Len(before))
               /\ lastCall'.ret = FALSE => after = before
       /\ lastCall'.op = "addElectron" =>
            LET a == lastCall'.args[1]
            IN atoms'[a].electrons = atoms[a].electrons \o <<lastCall'.args[2]>>
       /\ lastCall'.op \in {"removeElectron", "addElectron"} =>
            /\ Len(atoms') = Len(atoms)
            /\ \A b \in 1..Len(atoms) :
                  /\ atoms'[b].atomicNumber = atoms[b].atomicNumber
                  /\ atoms'[b].massNumber = atoms[b].massNumber
                  /\ atoms'[b].nucleus = atoms[b].nucleus
                  /\ b # lastCall'.args[1] => atoms'[b] = atoms[b]
            /\ particles' = particles]_vars

C26_Witness ==
    /\ lastCall.op = "removeElectron"
    /\ lastCall.ret = TRUE
    /\ Len(atoms[lastCall.args[1]].electrons) = 2
    /\ atoms[lastCall.args[1]].atomicNumber = 2
    /\ lastCall.args[2] < atoms[lastCall.args[1]].electrons[1]
    /\ particles[atoms[lastCall.args[1]].electrons[2]].orbitalLevel = 2

\* =========================================================================
\* Claims on the main loop (FrameSpec)
\* =========================================================================
\* a step that adds to the engine's atom list or molecule list
AddsToEngine ==
    \/ app'.atomCount # app.atomCount
    \/ app'.moleculeCount # app.moleculeCount

\* C25: every frame of the main loop calls PhysicsEngine::update exactly
\* once, and that call has returned before the renderer and the UI read the
\* engine's lists; every addAtom and addMolecule (scene setup, UI panels, key
\* callbacks, the periodic demonstration) runs before or after an update
\* call, never while one is in progress.
C25_OneUpdatePerFrameNoAddDuringIt ==
    [][/\ (app.pc \in {"renderScene", "renderUI"} /\ app'.pc # app.pc) => app.updates = 1
       /\ (app.pc = "pollEvents" /\ app'.pc = "loopTest") => app.updates = 1
       /\ (app.pc = "loopTest" /\ app'.pc = "handleInput") => app'.updates = 0
       /\ app'.updates # app.updates => app'.updates \in {0, 1}
       /\ AddsToEngine => (app.pc \notin EngineSteps /\ app'.pc \notin EngineSteps)]_vars

C25_Witness ==
    /\ app.pc = "loopTest"
    /\ app.frame = 2
    /\ app.updates = 1
    /\ app.keyEvents = 1
    /\ app.moleculeCount = 3
    /\ app.atomCount = H2O_ATOMS + SCENE_ATOMS + 1 + 2 + 2 + 2 + 1

\* =========================================================================
\* Further claims on the engine (Spec, OrbitalSpec)
\* =========================================================================
\* how many times update calls Particle::update on particle object pid: once
\* for every entry of allParticles that is pid
UpdateCalls(pid) ==
    LET allParticles == AllParticles(atoms, m_atoms, 1)
    IN Cardinality({k \in 1..Len(allParticles) : allParticles[k] = pid})

\* C27 as claimed: in one update(dt) call Particle::update is invoked exactly
\* once on each distinct particle of the engine's atoms, in every engine
\* state reachable through addAtom and addMolecule, a molecule registered
\* with atoms the engine already lists included.
C27_EachParticleUpdatedOnce ==
    lastCall.op = "update" =>
        \A a \in Range(m_atoms) :
            \A pid \in {atoms[a].nucleus} \cup Range(atoms[a].electrons) :
                UpdateCalls(pid) = 1

\* the momentum entry k of the particle list gains in an update, in exact
\* arithmetic: mass * (force / mass) * dt, which is force * dt unless the
\* quotient is not a number
C28_Impulse(p, force, dt) ==
    [c \in 1..3 |-> IF IsNaN(FDiv(force[c], p.mass)) THEN NaN ELSE FMul(force[c], dt)]

\* the momentum all entries gain in the update of the particles ps
C28_MomentumGained(ps, dt) ==
    LET allParticles == AllParticles(atoms, m_atoms, 1)
        forces == calculateForces(Deref(ps, allParticles))
    IN VSum([k \in 1..Len(allParticles) |-> C28_Impulse(ps[allParticles[k]], forces[k], dt)])

\* C28 as claimed: update(dt) conserves total linear momentum, for every
\* engine state and every dt: in exact arithmetic the momenta update adds to
\* the registered particles sum to the zero vector; and update leaves the
\* atom list and the molecule list unchanged.
C28_MomentumConserved ==
    [][lastCall'.op = "update" =>
          /\ C28_MomentumGained(particles, lastCall'.args[1]) = Zero3
          /\ UNCHANGED <<m_atoms, m_molecules, atoms, molecules>>]_vars

\* the electrons some atom lists
OwnedElectrons == UNION {Range(atoms[a].electrons) : a \in 1..Len(atoms)}

\* C29: after any sequence of Atom constructions and simulateElectronJump
\* calls with arbitrary newLevel arguments (zero and negative included),
\* every electron owned by an atom has an orbital level >= 1, so a jump never
\* evaluates calculateOrbitalEnergy on a stored level <= 0.
C29_StoredLevelsPositive ==
    [][/\ \A e \in OwnedElectrons' : particles'[e].orbitalLevel >= 1
       /\ (IsJump(lastCall') /\ ~LevelRejected(lastCall'.args[3])) =>
             particles[lastCall'.args[1]].orbitalLevel >= 1]_vars

C29_Witness ==
    /\ IsJump(lastCall)
    /\ lastCall.args[3] = 0 - 1
    /\ particles[lastCall.args[1]].orbitalLevel = 2
    /\ \E e \in OwnedElectrons : e # lastCall.args[1] /\ particles[e].orbitalLevel = 1

\* C30: in an engine whose only content is one freshly constructed Atom with
\* Z >= 1 and A >= Z, any number of update(dt) calls leaves the nucleus and
\* every electron at the construction position with zero velocity: every pair
\* of its particles is coincident and is skipped by the solver.
C30_LoneAtomStaysPut ==
    (/\ Len(m_atoms) = 1
     /\ Len(m_molecules) = 0
     /\ atoms[m_atoms[1]].atomicNumber >= 1
     /\ atoms[m_atoms[1]].massNumber >= atoms[m_atoms[1]].atomicNumber) =>
        LET atom == atoms[m_atoms[1]]
            own == {atom.nucleus} \cup
                   {atom.nucleus + i : i \in 1..atom.atomicNumber}
        IN /\ \E in \in AtomInputs :
                 /\ in[1] = atom.atomicNumber /\ in[2] = atom.massNumber
                 /\ \A pid \in own : particles[pid].position = in[3]
           /\ \A pid \in own : particles[pid].velocity = Zero3
           /\ \A pid, qid \in own :
                 TooClose(VLength(RVec(particles[pid], particles[qid])))

C30_Witness ==
    /\ lastCall.op = "update"
    /\ calls = 5
    /\ Len(atoms) = 1 /\ Len(molecules) = 0
    /\ m_atoms = <<1>>
    /\ atoms[1].atomicNumber = 2
    /\ Len(atoms[1].electrons) = 2
    /\ particles[3].position = <<0, 3, 4>>

====
